---- MODULE Spec2Model ----
(***************************************************************************)
(* A model of the typed binding and callback layer of flecs_ecs:           *)
(*   - the world-scoped type -> id cache behind the Id! macro              *)
(*     (addons/meta/component_id_fetcher.rs),                              *)
(*   - the observer builder, its binding context and the trampolines       *)
(*     (core/observer_builder.rs, core/entity_view/entity_view_const.rs),  *)
(*   - pair encoding as used by EntityView::each_pair,                     *)
(*   - the observer example (examples/observer_basics.rs),                 *)
(*   - component ids of statically registered types across handles,        *)
(*   - the typed accessors try_get, get, try_get_mut and has, name         *)
(*     lookup, and the each-style walks each_component, each_pair and      *)
(*     each_child_of_id (core/entity_view/entity_view_const.rs),           *)
(*   - the query and system examples (examples/query_with.rs,              *)
(*     examples/system_basics.rs),                                         *)
(*   - structural changes asked for from inside an observer callback.      *)
(* Each subsystem has a specification of its own over its own variables;   *)
(* the variables of the other subsystems stay at their initial values.     *)
(***************************************************************************)
EXTENDS Integers, Sequences, FiniteSets, TLC

\* ------------------------------------------------------------------ bounds
NumTypes == 2
MaxEntities == 1
NumThreads == 2
IdBits == 2
MaxTableIds == 2
EventCap == 2
MaxTerms == 2
MaxClosures == 2
MaxObservers == 2
MaxBuilds == 1
MaxRows == 2
MaxOps == 3
MaxBatch == 3
MaxRuns == 2
MaxQueue == 2
MaxChildren == 2

\* The world a lookup is made on, and a second, distinct world.
Worlds == {1, 2}
Types == 1..NumTypes
Threads == 1..NumThreads

\* ------------------------------------------------------------------ state
\* The component identity registry.
VARIABLES
    components_map,   \* [map index][type] -> cached id, 0 when the entry is vacant
    engine_names,     \* [world][type] -> id the engine holds under the type's name, 0 when none
    engine_next,      \* [world] -> next entity id the engine hands out
    register_calls,   \* [world][type] -> runs of the or_insert_with closure (history)
    returned,         \* [world][type] -> ids that lookups have returned (history)
    lookup_count,     \* [world][type] -> "none", "once" or "again": lookups made (history)
    th_pc, th_arg, th_tmp, th_result   \* the threads of the concurrent specification

\* One entity's table and the last each_pair call on it.
VARIABLES
    ent_has_table,   \* whether the entity has a table (ecs_get_table is non-null)
    table_ids,       \* the archetype of the entity's table: its ids, ascending
    added,           \* what was added to the entity: [id, pair] (history)
    ep_pred, ep_obj, \* the arguments of the last each_pair call, 0 before any
    ep_pattern,      \* the pattern that call matched against, -1 when it built none
    ep_calls         \* the ids that call handed to func, in call order

\* The observer builder, the binding contexts and closures on the heap, the
\* observers the engine holds, and the trampoline the engine is running.
VARIABLES
    desc_events,            \* desc.events: slot -> event id, "none" when unset
    event_count,            \* ObserverBuilder::event_count
    event_writes,           \* indices of desc.events that were written (history)
    add_event_calls,        \* add_event / add_event_of_type calls received (history)
    event_args,             \* the ids given to the calls that returned, in call order (history)
    desc_filter,            \* desc.filter: the terms in the builder's own descriptor
    desc_callback,          \* desc.callback: "null" or a trampoline
    desc_run,               \* desc.run
    desc_ctx,               \* desc.ctx
    desc_yield_existing,    \* desc.yield_existing
    desc_binding_ctx,       \* desc.binding_ctx: 0 (null) or the context's address
    desc_binding_ctx_free,  \* desc.binding_ctx_free
    fb_terms,               \* the terms the filter builder holds, in slot order
    on_each_calls,          \* on_each calls received (history)
    ctxs,                   \* heap: address -> binding context
    closures,               \* heap: address -> boxed closure
    observers,              \* the observers the engine created
    table_lock,             \* the lock count of the table being iterated
    tr_pc, tr_obs, tr_row, tr_count,   \* the trampoline in progress
    tr_exit,                \* how the last trampoline ended
    proc                    \* "running", "panicked" (unwound) or "aborted"

builderVars == <<desc_events, event_count, event_writes, add_event_calls, event_args,
                 desc_filter, desc_callback,
                 desc_run, desc_ctx, desc_yield_existing, desc_binding_ctx,
                 desc_binding_ctx_free, fb_terms, on_each_calls>>
heapVars == <<ctxs, closures, observers>>
trVars == <<table_lock, tr_pc, tr_obs, tr_row, tr_count, tr_exit>>
obsVars == <<builderVars, heapVars, trVars, proc>>

\* The observer example: entities that may hold a Position, what was done to
\* each, and what the observer's closure printed for each.
VARIABLES
    ex_has,     \* [entity] -> whether the entity holds Position
    ex_pos,     \* [entity] -> the stored Position, "unset" before any set
    ex_ops,     \* [entity] -> the set / remove calls made on it, in order (history)
    ex_log      \* [entity] -> the lines the closure printed for it, in order

exVars == <<ex_has, ex_pos, ex_ops, ex_log>>

\* Lookups through the Id! macro on world handles, and the ids the ComponentId
\* trait holds for types that implement it.
VARIABLES
    static_ids,   \* [world][type] -> the id T::id(world) has registered, 0 before
    seen          \* [handle][type] -> ids Id!(handle, T) has returned (history)

idVars == <<static_ids, seen>>

\* The observer example's entities read back with try_get.
VARIABLES
    ex_got      \* [entity] -> the last try_get::<Position>: after how many calls, and its result

getVars == <<ex_got>>

\* The query and system examples: a batch of entities, and what the callback
\* of the query or system was handed.
VARIABLES
    qw_entities,   \* the entities in creation order: [pos, npc, vel], pos and vel pointers
    qw_initial,    \* the Position each entity was created with (history)
    qw_calls,      \* the callback invocations of the last run, in order: [entity, tuple]
    qw_runs        \* how many times the query or system ran

qwVars == <<qw_entities, qw_initial, qw_calls, qw_runs>>

\* Structural changes asked for from inside a callback.
VARIABLES
    df_comps,     \* the component set of the table being iterated
    df_queue,     \* the engine's queue of deferred operations, in order
    df_asked,     \* operations the closure issued while the table was locked (history)
    df_applied    \* operations the engine has applied from the queue (history)

dfVars == <<df_comps, df_queue, df_asked, df_applied>>

\* One entity read through the typed accessors.
VARIABLES
    ac_own,       \* [type] -> pointer to the value stored under the bare id on the entity
    ac_target,    \* target 0 of the pair (Color, *) on the entity, 0 when there is none
    ac_const,     \* [constant entity] -> pointer to the value stored under Color on it
    ac_last       \* the last accessor call since the entity changed: what it read and gave

acVars == <<ac_own, ac_target, ac_const, ac_last>>

\* Name lookup from an entity handle.
VARIABLES
    lk_scoped,    \* [name] -> id of the entity of that name inside the handle's entity, or 0
    lk_outer,     \* [name] -> id of the entity of that name in the enclosing scope, or 0
    lk_last       \* the last lookup call since the names changed, and what it gave

lkVars == <<lk_scoped, lk_outer, lk_last>>

\* Each-style walks over one entity: its children, and the walks made.
VARIABLES
    ea_children,  \* the tables holding the entity's children, in the engine's order
    ea_runs       \* the last walk, and the walk right after it when it repeated the first

eaVars == <<ea_children, ea_runs>>

regVars == <<components_map, engine_names, engine_next, register_calls, returned,
             lookup_count>>
thVars == <<th_pc, th_arg, th_tmp, th_result>>
pairVars == <<ent_has_table, table_ids, added, ep_pred, ep_obj, ep_pattern, ep_calls>>

\* The variables of the subsystems below the observer example.
extVars == <<idVars, getVars, qwVars, dfVars, acVars, lkVars, eaVars>>

vars == <<regVars, thVars, pairVars, obsVars, exVars, extVars>>
\* What the actions of one subsystem leave alone.
notRegistry == <<pairVars, obsVars, exVars, extVars>>
notPair == <<regVars, thVars, obsVars, exVars, extVars>>
notObserver == <<regVars, thVars, pairVars, exVars, extVars>>
notExample == <<regVars, thVars, pairVars, obsVars, extVars>>
notIdentity == <<thVars, pairVars, obsVars, exVars, getVars, qwVars, dfVars, acVars, lkVars, eaVars>>
notEach == <<regVars, thVars, obsVars, exVars, idVars, getVars, qwVars, dfVars, acVars, lkVars>>
notLookup == <<regVars, thVars, pairVars, obsVars, exVars, idVars, getVars, qwVars, dfVars, acVars, eaVars>>
notAccess == <<regVars, thVars, pairVars, obsVars, exVars, idVars, getVars, qwVars, dfVars, lkVars, eaVars>>
notDefer == <<regVars, thVars, pairVars, obsVars, exVars, idVars, getVars, qwVars, acVars, lkVars, eaVars>>
notQw == <<regVars, thVars, pairVars, obsVars, exVars, idVars, getVars, dfVars, acVars, lkVars, eaVars>>
notGet == <<regVars, thVars, pairVars, obsVars, idVars, qwVars, dfVars, acVars, lkVars, eaVars>>

\* =================================================================
\* Component identity registry: ExternalComponent::deref_id
\* =================================================================
NoArg == [w |-> 0, t |-> 0]

RegInit ==
    /\ components_map = [m \in Worlds |-> [t \in Types |-> 0]]
    /\ engine_names = [w \in Worlds |-> [t \in Types |-> 0]]
    /\ engine_next = [w \in Worlds |-> 1]
    /\ register_calls = [w \in Worlds |-> [t \in Types |-> 0]]
    /\ returned = [w \in Worlds |-> [t \in Types |-> {}]]
    /\ lookup_count = [w \in Worlds |-> [t \in Types |-> "none"]]
    /\ th_pc = [th \in Threads |-> "idle"]
    /\ th_arg = [th \in Threads |-> NoArg]
    /\ th_tmp = [th \in Threads |-> 0]
    /\ th_result = [th \in Threads |-> 0]

\* world.components_map(): the map of the world the lookup is made on.
ComponentsMapShared(w) == 1
ComponentsMapOf(w) == w

\* map.entry(TypeId::of::<T>()) is Occupied.
EntryNeverOccupied(map, t) == FALSE
EntryOccupied(map, t) == map[t] # 0

\* external_register_component::<T>(world, null): looks the type up by its name
\* in the engine and creates the component when there is none.
ExternalRegisterId(w, t) ==
    IF engine_names[w][t] # 0 THEN engine_names[w][t] ELSE engine_next[w]

ExternalRegisterEffect(w, t) ==
    IF engine_names[w][t] # 0
    THEN /\ UNCHANGED <<engine_names, engine_next>>
    ELSE /\ engine_names' = [engine_names EXCEPT ![w][t] = engine_next[w]]
         /\ engine_next' = [engine_next EXCEPT ![w] = @ + 1]

\* EntityView::new: sys::ecs_new hands out the world's next id.
EntityNew(w) ==
    /\ engine_next[w] <= MaxEntities
    /\ engine_next' = [engine_next EXCEPT ![w] = @ + 1]
    /\ UNCHANGED <<components_map, engine_names, register_calls, returned, lookup_count>>
    /\ UNCHANGED thVars
    /\ UNCHANGED notRegistry

\* Id!(world, T) for a type without ComponentId: one whole call of deref_id.
DerefId(w, t) ==
    LET m == ComponentsMapOf(w)
        hit == EntryOccupied(components_map[m], t)
        id == IF hit THEN components_map[m][t] ELSE ExternalRegisterId(w, t)
    IN  /\ IF hit
           THEN UNCHANGED <<components_map, engine_names, engine_next, register_calls>>
           ELSE /\ ExternalRegisterEffect(w, t)
                /\ components_map' = [components_map EXCEPT ![m][t] = id]
                /\ register_calls' = [register_calls EXCEPT ![w][t] = @ + 1]
        /\ returned' = [returned EXCEPT ![w][t] = @ \cup {id}]
        /\ lookup_count' = [lookup_count EXCEPT ![w][t] = IF @ = "none" THEN "once" ELSE "again"]
        /\ UNCHANGED thVars
        /\ UNCHANGED notRegistry

\* ---- the same call made from several threads: the map is a plain &mut HashMap,
\* ---- so the probe, the closure and the insert of two calls interleave.
ThStart(th, w, t) ==
    /\ th_pc[th] = "idle"
    /\ th_arg' = [th_arg EXCEPT ![th] = [w |-> w, t |-> t]]
    /\ th_pc' = [th_pc EXCEPT ![th] = "entry"]
    /\ UNCHANGED <<th_tmp, th_result>>
    /\ UNCHANGED regVars
    /\ UNCHANGED notRegistry

ThEntry(th) ==
    /\ th_pc[th] = "entry"
    /\ LET w == th_arg[th].w
           t == th_arg[th].t
           m == ComponentsMapOf(w)
       IN IF EntryOccupied(components_map[m], t)
          THEN /\ th_result' = [th_result EXCEPT ![th] = components_map[m][t]]
               /\ returned' = [returned EXCEPT ![w][t] = @ \cup {components_map[m][t]}]
               /\ th_pc' = [th_pc EXCEPT ![th] = "done"]
          ELSE /\ th_pc' = [th_pc EXCEPT ![th] = "register"]
               /\ UNCHANGED <<th_result, returned>>
    /\ UNCHANGED <<th_arg, th_tmp>>
    /\ UNCHANGED <<components_map, engine_names, engine_next, register_calls, lookup_count>>
    /\ UNCHANGED notRegistry

ThRegister(th) ==
    /\ th_pc[th] = "register"
    /\ LET w == th_arg[th].w
           t == th_arg[th].t
       IN /\ th_tmp' = [th_tmp EXCEPT ![th] = ExternalRegisterId(w, t)]
          /\ ExternalRegisterEffect(w, t)
          /\ register_calls' = [register_calls EXCEPT ![w][t] = @ + 1]
    /\ th_pc' = [th_pc EXCEPT ![th] = "insert"]
    /\ UNCHANGED <<th_arg, th_result, components_map, returned, lookup_count>>
    /\ UNCHANGED notRegistry

ThInsert(th) ==
    /\ th_pc[th] = "insert"
    /\ LET w == th_arg[th].w
           t == th_arg[th].t
           m == ComponentsMapOf(w)
       IN /\ components_map' = [components_map EXCEPT ![m][t] = th_tmp[th]]
          /\ returned' = [returned EXCEPT ![w][t] = @ \cup {th_tmp[th]}]
    /\ th_result' = [th_result EXCEPT ![th] = th_tmp[th]]
    /\ th_pc' = [th_pc EXCEPT ![th] = "done"]
    /\ UNCHANGED <<th_arg, th_tmp, engine_names, engine_next, register_calls, lookup_count>>
    /\ UNCHANGED notRegistry

ThReturn(th) ==
    /\ th_pc[th] = "done"
    /\ th_pc' = [th_pc EXCEPT ![th] = "idle"]
    /\ th_arg' = [th_arg EXCEPT ![th] = NoArg]
    /\ th_tmp' = [th_tmp EXCEPT ![th] = 0]
    /\ th_result' = [th_result EXCEPT ![th] = 0]
    /\ UNCHANGED regVars
    /\ UNCHANGED notRegistry

\* =================================================================
\* Pair encoding and EntityView::each_pair
\* =================================================================
\* An id word is scaled down to 2*IdBits + 1 bits: the target in the low
\* IdBits, the relationship above it, the pair discriminant bit on top.
RECURSIVE Pow2(_)
Pow2(n) == IF n = 0 THEN 1 ELSE 2 * Pow2(n - 1)

HalfSize == Pow2(IdBits)
ECS_PAIR == Pow2(2 * IdBits)
ECS_WILDCARD == HalfSize - 1
EntityIds == {1, 2}
PairArgs == 1..(HalfSize - 1)

ecs_pair(rel, target) == ECS_PAIR + (rel % HalfSize) * HalfSize + (target % HalfSize)
ecs_is_pair(id) == (id \div ECS_PAIR) % 2 = 1
ecs_first(id) == (id % ECS_PAIR) \div HalfSize
ecs_second(id) == id % HalfSize

PairInit ==
    /\ ent_has_table = FALSE
    /\ table_ids = <<>>
    /\ added = {}
    /\ ep_pred = 0
    /\ ep_obj = 0
    /\ ep_pattern = -1
    /\ ep_calls = <<>>

SeqToSet(q) == {q[i] : i \in 1..Len(q)}

RECURSIVE SortedSeq(_)
SortedSeq(S) ==
    IF S = {} THEN <<>>
    ELSE LET lo == CHOOSE x \in S : \A y \in S : x <= y
         IN <<lo>> \o SortedSeq(S \ {lo})

\* The engine's add: the entity moves to the table whose type holds the id too.
\* The record of the last each_pair call describes the table it ran on, so it
\* is cleared when the entity moves.
TableWith(ids, id) == SortedSeq(SeqToSet(ids) \cup {id})

EntityAddId(e) ==
    /\ Cardinality(SeqToSet(table_ids) \cup {e}) <= MaxTableIds
    /\ table_ids' = TableWith(table_ids, e)
    /\ ent_has_table' = TRUE
    /\ added' = added \cup {[id |-> e, pair |-> FALSE]}
    /\ ep_pred' = 0
    /\ ep_obj' = 0
    /\ ep_pattern' = -1
    /\ ep_calls' = <<>>
    /\ UNCHANGED notPair

EntityAddPair(a, b) ==
    /\ Cardinality(SeqToSet(table_ids) \cup {ecs_pair(a, b)}) <= MaxTableIds
    /\ table_ids' = TableWith(table_ids, ecs_pair(a, b))
    /\ ent_has_table' = TRUE
    /\ added' = added \cup {[id |-> ecs_pair(a, b), pair |-> TRUE]}
    /\ ep_pred' = 0
    /\ ep_obj' = 0
    /\ ep_pattern' = -1
    /\ ep_calls' = <<>>
    /\ UNCHANGED notPair

\* The engine's id matching: a wildcard half of a pair pattern matches any half,
\* a bare wildcard any bare id.
IdMatch(id, pattern) ==
    IF ecs_is_pair(pattern)
    THEN /\ ecs_is_pair(id)
         /\ ecs_first(pattern) \in {ECS_WILDCARD, ecs_first(id)}
         /\ ecs_second(pattern) \in {ECS_WILDCARD, ecs_second(id)}
    ELSE /\ ~ecs_is_pair(id)
         /\ pattern \in {ECS_WILDCARD, id}

\* sys::ecs_search_offset: the index (from 0) of the first id at or after
\* `offset` that matches, -1 when there is none.
SearchOffset(ids, offset, pattern) ==
    LET hits == {i \in offset..(Len(ids) - 1) : IdMatch(ids[i + 1], pattern)}
    IN IF hits = {} THEN -1 ELSE CHOOSE i \in hits : \A j \in hits : i <= j

\* each_pair, lines 460-464: the bare id pred when obj is 0, else the pair.
EachPairPatternSwapped(pred, obj) == IF obj # 0 THEN ecs_pair(obj, pred) ELSE pred
EachPairPattern(pred, obj) == IF obj # 0 THEN ecs_pair(pred, obj) ELSE pred

\* A search that stops after the first match.
EachPairLoopFirstOnly(ids, pattern, cur, out) ==
    LET found == SearchOffset(ids, cur, pattern)
    IN IF found = -1 THEN out ELSE Append(out, ids[found + 1])

\* each_pair, lines 466-485: the search loop.
RECURSIVE EachPairLoop(_, _, _, _)
EachPairLoop(ids, pattern, cur, out) ==
    LET found == SearchOffset(ids, cur, pattern)
    IN IF found = -1 THEN out
       ELSE EachPairLoop(ids, pattern, found + 1, Append(out, ids[found + 1]))

\* each_pair, lines 443-486. One call is recorded per table: the call reads the
\* table and writes nothing but its own record, so a further call on the same
\* table would only replace the record.
EachPair(pred, obj) ==
    /\ ep_pred = 0
    /\ ep_pred' = pred
    /\ ep_obj' = obj
    /\ IF ~ent_has_table
       THEN /\ ep_pattern' = -1
            /\ ep_calls' = <<>>
       ELSE /\ ep_pattern' = EachPairPattern(pred, obj)
            /\ ep_calls' = EachPairLoop(table_ids, EachPairPattern(pred, obj), 0, <<>>)
    /\ UNCHANGED <<ent_has_table, table_ids, added>>
    /\ UNCHANGED notPair

\* =================================================================
\* Observer builder, binding contexts, trampolines
\* =================================================================
EventIds == {"OnAdd"}              \* events given to add_event
EventTypes == {"Resize"}           \* event types given to add_event_of_type
TermIds == {"Npc"}                 \* components given to the filter builder through with
ObserverCtxSlots == {"each", "entity_each"}
EntityShapes == {"empty", "empty_entity", "payload", "payload_entity"}

\* ObserverBindingCtx::default and ObserverEntityBindingCtx::default: no slot filled.
ObserverBindingCtxDefault ==
    [slot |-> [sh \in ObserverCtxSlots |-> 0], free |-> [sh \in ObserverCtxSlots |-> "none"]]
ObserverEntityBindingCtxDefault ==
    [slot |-> [sh \in EntityShapes |-> 0], free |-> [sh \in EntityShapes |-> "none"]]

NewClosure(sh) == [shape |-> sh, drops |-> 0, frees |-> 0]

\* ecs_observer_desc_t::default(): no term in the filter part.
DescDefaultFilter == <<>>

\* ObserverBuilder::new: a default descriptor, copied into the builder before
\* the filter builder is handed the filter part of the local it was copied
\* from, and the terms of T (here &Position) populated through the filter
\* builder.
BuilderInit ==
    /\ desc_events = [i \in 0..(EventCap - 1) |-> "none"]
    /\ event_count = 0
    /\ event_writes = {}
    /\ add_event_calls = 0
    /\ event_args = <<>>
    /\ desc_filter = DescDefaultFilter
    /\ desc_callback = "null"
    /\ desc_run = "null"
    /\ desc_ctx = "null"
    /\ desc_yield_existing = FALSE
    /\ desc_binding_ctx = 0
    /\ desc_binding_ctx_free = "null"
    /\ fb_terms = <<"Position">>
    /\ on_each_calls = 0

ObsInit ==
    /\ BuilderInit
    /\ ctxs = <<>>
    /\ closures = <<>>
    /\ observers = <<>>
    /\ table_lock = 0
    /\ tr_pc = "idle"
    /\ tr_obs = 0
    /\ tr_row = 0
    /\ tr_count = 0
    /\ tr_exit = "none"
    /\ proc = "running"

\* A term written to the current slot without advancing the cursor.
WithInPlace(t) ==
    /\ proc = "running"
    /\ Len(fb_terms) < MaxTerms
    /\ fb_terms' = [fb_terms EXCEPT ![Len(fb_terms)] = t]
    /\ UNCHANGED <<desc_events, event_count, event_writes, add_event_calls, event_args,
                   desc_filter, desc_callback,
                   desc_run, desc_ctx, desc_yield_existing, desc_binding_ctx,
                   desc_binding_ctx_free, on_each_calls>>
    /\ UNCHANGED <<heapVars, trVars, proc>>
    /\ UNCHANGED notObserver

\* A term added through the filter builder the observer builder derefs to.
With(t) ==
    /\ proc = "running"
    /\ Len(fb_terms) < MaxTerms
    /\ fb_terms' = Append(fb_terms, t)
    /\ UNCHANGED <<desc_events, event_count, event_writes, add_event_calls, event_args,
                   desc_filter, desc_callback,
                   desc_run, desc_ctx, desc_yield_existing, desc_binding_ctx,
                   desc_binding_ctx_free, on_each_calls>>
    /\ UNCHANGED <<heapVars, trVars, proc>>
    /\ UNCHANGED notObserver

\* desc.events[event_count]: Rust checks the index of a fixed array and panics
\* when it is out of bounds.
IndexUnchecked(i, len) == TRUE
IndexInBounds(i, len) == i < len

\* An add_event that writes every event to the first slot.
WriteEventFirstSlot(id) ==
    /\ proc = "running"
    /\ add_event_calls' = add_event_calls + 1
    /\ IF IndexInBounds(event_count, EventCap)
       THEN /\ desc_events' = [desc_events EXCEPT ![0] = id]
            /\ event_writes' = event_writes \cup {event_count}
            /\ event_count' = event_count + 1
            /\ event_args' = Append(event_args, id)
            /\ UNCHANGED proc
       ELSE /\ proc' = "panicked"
            /\ UNCHANGED <<desc_events, event_writes, event_count, event_args>>
    /\ UNCHANGED <<desc_filter, desc_callback, desc_run, desc_ctx, desc_yield_existing,
                   desc_binding_ctx, desc_binding_ctx_free, fb_terms, on_each_calls>>
    /\ UNCHANGED <<heapVars, trVars>>
    /\ UNCHANGED notObserver

\* add_event and add_event_of_type, lines 254-273: write the slot, then count.
WriteEvent(id) ==
    /\ proc = "running"
    /\ add_event_calls' = add_event_calls + 1
    /\ IF IndexInBounds(event_count, EventCap)
       THEN /\ desc_events' = IF event_count \in DOMAIN desc_events
                              THEN [desc_events EXCEPT ![event_count] = id]
                              ELSE desc_events
            /\ event_writes' = event_writes \cup {event_count}
            /\ event_count' = event_count + 1
            /\ event_args' = Append(event_args, id)
            /\ UNCHANGED proc
       ELSE /\ proc' = "panicked"
            /\ UNCHANGED <<desc_events, event_writes, event_count, event_args>>
    /\ UNCHANGED <<desc_filter, desc_callback, desc_run, desc_ctx, desc_yield_existing,
                   desc_binding_ctx, desc_binding_ctx_free, fb_terms, on_each_calls>>
    /\ UNCHANGED <<heapVars, trVars>>
    /\ UNCHANGED notObserver

AddEvent(ev) ==
    /\ ev \in EventIds
    /\ WriteEvent(ev)

AddEventOfType(ty) ==
    /\ ty \in EventTypes
    /\ WriteEvent(ty)

YieldExisting(should_yield) ==
    /\ proc = "running"
    /\ desc_yield_existing' = should_yield
    /\ UNCHANGED <<desc_events, event_count, event_writes, add_event_calls, event_args,
                   desc_filter, desc_callback,
                   desc_run, desc_ctx, desc_binding_ctx, desc_binding_ctx_free, fb_terms,
                   on_each_calls>>
    /\ UNCHANGED <<heapVars, trVars, proc>>
    /\ UNCHANGED notObserver

SetContext(context) ==
    /\ proc = "running"
    /\ desc_ctx' = context
    /\ UNCHANGED <<desc_events, event_count, event_writes, add_event_calls, event_args,
                   desc_filter, desc_callback,
                   desc_run, desc_yield_existing, desc_binding_ctx, desc_binding_ctx_free,
                   fb_terms, on_each_calls>>
    /\ UNCHANGED <<heapVars, trVars, proc>>
    /\ UNCHANGED notObserver

SetRunCallback(callback) ==
    /\ proc = "running"
    /\ desc_run' = callback
    /\ UNCHANGED <<desc_events, event_count, event_writes, add_event_calls, event_args,
                   desc_filter, desc_callback,
                   desc_ctx, desc_yield_existing, desc_binding_ctx, desc_binding_ctx_free,
                   fb_terms, on_each_calls>>
    /\ UNCHANGED <<heapVars, trVars, proc>>
    /\ UNCHANGED notObserver

\* get_binding_ctx, line 121: a context is allocated only when desc.binding_ctx is null.
BindingCtxIsNullAlways(ptr) == TRUE
BindingCtxIsNull(ptr) == ptr = 0

\* on_each, lines 138-146, with get_binding_ctx, lines 118-129: box the closure,
\* store it and its free function in the context's `each` slot. desc.callback
\* is not assigned.
OnEach ==
    /\ proc = "running"
    /\ Len(closures) < MaxClosures
    /\ LET fresh == BindingCtxIsNull(desc_binding_ctx)
           c == IF fresh THEN Len(ctxs) + 1 ELSE desc_binding_ctx
           heap == IF fresh THEN Append(ctxs, ObserverBindingCtxDefault) ELSE ctxs
           f == Len(closures) + 1
       IN /\ ctxs' = [heap EXCEPT ![c].slot["each"] = f, ![c].free["each"] = "on_free_each"]
          /\ closures' = Append(closures, NewClosure("each"))
          /\ desc_binding_ctx' = c
          /\ desc_binding_ctx_free' =
                IF fresh THEN "binding_ctx_drop" ELSE desc_binding_ctx_free
    /\ on_each_calls' = on_each_calls + 1
    /\ UNCHANGED <<desc_events, event_count, event_writes, add_event_calls, event_args,
                   desc_filter, desc_callback,
                   desc_run, desc_ctx, desc_yield_existing, fb_terms>>
    /\ UNCHANGED <<observers, trVars, proc>>
    /\ UNCHANGED notObserver

\* The engine's creation call on the builder's descriptor: the engine copies the
\* terms, the events and the pointers; the builder is borrowed, not consumed,
\* and keeps its descriptor.
Build ==
    /\ proc = "running"
    /\ Len(observers) < MaxObservers
    /\ Cardinality({o \in 1..Len(observers) : observers[o].origin = "builder"}) < MaxBuilds
    /\ observers' = Append(observers,
            [origin |-> "builder",
             terms |-> fb_terms,
             events |-> desc_events,
             callback |-> desc_callback,
             run |-> desc_run,
             binding_ctx |-> desc_binding_ctx,
             binding_ctx_free |-> desc_binding_ctx_free,
             alive |-> TRUE,
             event_calls |-> add_event_calls])
    /\ UNCHANGED <<builderVars, ctxs, closures, trVars, proc>>
    /\ UNCHANGED notObserver

\* A wiring that registers the trampoline of the entity-taking sibling shape.
TrampolineOfSibling(sh) ==
    CASE sh = "empty" -> "run_empty_entity"
      [] sh = "empty_entity" -> "run_empty"
      [] sh = "payload" -> "run_payload_entity"
      [] sh = "payload_entity" -> "run_payload"

\* The trampoline and the free function observe* wires up for a shape.
TrampolineOf(sh) ==
    CASE sh = "empty" -> "run_empty"
      [] sh = "empty_entity" -> "run_empty_entity"
      [] sh = "payload" -> "run_payload"
      [] sh = "payload_entity" -> "run_payload_entity"

OnFreeOf(sh) ==
    CASE sh = "empty" -> "on_free_empty"
      [] sh = "empty_entity" -> "on_free_empty_entity"
      [] sh = "payload" -> "on_free_payload"
      [] sh = "payload_entity" -> "on_free_payload_entity"

\* The slot a trampoline unwraps.
TrampolineSlot(cb) ==
    CASE cb = "run_each" -> "each"
      [] cb = "run_empty" -> "empty"
      [] cb = "run_empty_entity" -> "empty_entity"
      [] cb = "run_payload" -> "payload"
      [] cb = "run_payload_entity" -> "payload_entity"

\* entity_observer_create, lines 2665-2682.
EntityObserverCreate(event, binding_ctx, callback) ==
    [origin |-> "entity",
     terms |-> <<"Any">>,
     events |-> [i \in 0..(EventCap - 1) |-> IF i = 0 THEN event ELSE "none"],
     callback |-> callback,
     run |-> "null",
     binding_ctx |-> binding_ctx,
     binding_ctx_free |-> "binding_entity_ctx_drop",
     alive |-> TRUE,
     event_calls |-> 0]

\* observe_impl, observe_entity_impl, observe_payload_impl and
\* observe_payload_entity_impl, lines 2503-2660: a fresh context, the boxed
\* closure in the slot of the shape, the observer created on it.
ObserveImpl(sh, event) ==
    /\ proc = "running"
    /\ Len(closures) < MaxClosures
    /\ Len(observers) < MaxObservers
    /\ LET c == Len(ctxs) + 1
           f == Len(closures) + 1
       IN /\ ctxs' = Append(ctxs, [ObserverEntityBindingCtxDefault EXCEPT
                                        !.slot[sh] = f, !.free[sh] = OnFreeOf(sh)])
          /\ closures' = Append(closures, NewClosure(sh))
          /\ observers' = Append(observers, EntityObserverCreate(event, c, TrampolineOf(sh)))
    /\ UNCHANGED <<builderVars, trVars, proc>>
    /\ UNCHANGED notObserver

\* on_free_each, line 149, and on_free_empty .. on_free_payload_entity, lines
\* 2810-2834: the type the pointer is cast to before ptr::drop_in_place.
OnFreeCast(sh) == "fn_pointer"

\* ptr::drop_in_place::<U> runs the drop glue of U: the closure's destructor
\* when U is the closure's own type, nothing when U is a fn pointer.
DropGlueRuns(cast) == cast = "closure"

\* ObserverBindingCtx::drop, lines 25-38 (and the same for the entity context):
\* every filled slot that has a free function is handed to it.
BindingCtxDrop(c, cls) ==
    [k \in 1..Len(cls) |->
        IF \E sh \in DOMAIN c.slot : c.slot[sh] = k /\ c.free[sh] # "none"
        THEN [cls[k] EXCEPT
                !.frees = @ + 1,
                !.drops = IF DropGlueRuns(OnFreeCast(cls[k].shape)) THEN @ + 1 ELSE @]
        ELSE cls[k]]

\* The engine destroys an observer: it calls binding_ctx_free(binding_ctx),
\* which is binding_ctx_drop, lines 131-136, or binding_entity_ctx_drop, lines
\* 2841-2846.
DestroyObserver(o) ==
    /\ proc = "running"
    /\ tr_pc = "idle"
    /\ observers[o].alive
    /\ observers' = [observers EXCEPT ![o].alive = FALSE]
    /\ closures' = IF observers[o].binding_ctx # 0 /\ observers[o].binding_ctx_free # "null"
                   THEN BindingCtxDrop(ctxs[observers[o].binding_ctx], closures)
                   ELSE closures
    /\ UNCHANGED <<builderVars, ctxs, trVars, proc>>
    /\ UNCHANGED notObserver

\* A panic that leaves an extern "C" function: the process aborts, or (undefined
\* behaviour before the abort was made the rule) the frames are unwound.
PanicOutcomes == {"abort", "unwind"}

\* The engine invokes the observer's callback with `count` rows: the trampoline
\* unwraps its slot, then locks the table (run_empty, lines 2698-2703).
TrampolineBegin(o, count) ==
    /\ proc = "running"
    /\ tr_pc = "idle"
    /\ observers[o].alive
    /\ observers[o].callback # "null"
    /\ tr_obs' = o
    /\ tr_row' = 0
    /\ tr_count' = count
    /\ IF ctxs[observers[o].binding_ctx].slot[TrampolineSlot(observers[o].callback)] = 0
       THEN /\ proc' = "panicked"
            /\ tr_exit' = "unwrap_none"
            /\ UNCHANGED <<tr_pc, table_lock>>
       ELSE /\ table_lock' = table_lock + 1
            /\ tr_pc' = "loop"
            /\ UNCHANGED <<proc, tr_exit>>
    /\ UNCHANGED <<builderVars, heapVars>>
    /\ UNCHANGED notObserver

\* One row of the loop, lines 2705-2707: the closure returns or panics.
TrampolineRow(outcome) ==
    /\ proc = "running"
    /\ tr_pc = "loop"
    /\ tr_row < tr_count
    /\ CASE outcome = "return" ->
              /\ tr_row' = tr_row + 1
              /\ UNCHANGED <<tr_pc, tr_exit, proc>>
         [] outcome = "abort" ->
              /\ proc' = "aborted"
              /\ UNCHANGED <<tr_pc, tr_exit, tr_row>>
         [] outcome = "unwind" ->
              /\ proc' = "panicked"
              /\ tr_pc' = "idle"
              /\ tr_exit' = "unwound"
              /\ UNCHANGED tr_row
    /\ UNCHANGED <<table_lock, tr_obs, tr_count>>
    /\ UNCHANGED <<builderVars, heapVars>>
    /\ UNCHANGED notObserver

\* A trampoline that may unlock and return before the last row.
TrampolineEndEarly ==
    /\ proc = "running"
    /\ tr_pc = "loop"
    /\ tr_row <= tr_count
    /\ table_lock' = table_lock - 1
    /\ tr_pc' = "idle"
    /\ tr_exit' = "returned"
    /\ UNCHANGED <<tr_obs, tr_row, tr_count, proc>>
    /\ UNCHANGED <<builderVars, heapVars>>
    /\ UNCHANGED notObserver

\* After the loop, line 2709: the table is unlocked and the trampoline returns.
TrampolineEnd ==
    /\ proc = "running"
    /\ tr_pc = "loop"
    /\ tr_row = tr_count
    /\ table_lock' = table_lock - 1
    /\ tr_pc' = "idle"
    /\ tr_exit' = "returned"
    /\ UNCHANGED <<tr_obs, tr_row, tr_count, proc>>
    /\ UNCHANGED <<builderVars, heapVars>>
    /\ UNCHANGED notObserver

\* =================================================================
\* The observer example (examples/observer_basics.rs)
\* =================================================================
ExEntities == {"e1", "e2"}
Positions == {[x |-> 10, y |-> 20], [x |-> 1, y |-> 2]}

\* Lines 11-16: the events the observer is created for.
ObserverEventsNoOnSet == {"OnAdd", "OnRemove"}
ObserverEvents == {"OnAdd", "OnRemove", "OnSet"}

\* Lines 17-37: the closure prints the event alone for OnAdd, and the event
\* with the Position it is handed otherwise.
OnEachIter(event, pos) ==
    IF event = "OnAdd" THEN [event |-> event, pos |-> "not printed"]
    ELSE [event |-> event, pos |-> pos]

\* The engine hands an event on a Position to the observer when the observer
\* was created for that event.
Deliver(log, event, pos) ==
    IF event \in ObserverEvents THEN Append(log, OnEachIter(event, pos)) ELSE log

ExInit ==
    /\ ex_has = [e \in ExEntities |-> FALSE]
    /\ ex_pos = [e \in ExEntities |-> "unset"]
    /\ ex_ops = [e \in ExEntities |-> <<>>]
    /\ ex_log = [e \in ExEntities |-> <<>>]

\* Line 40, entity.set(Position): the engine adds the component when the
\* entity lacks it (OnAdd, before the value is assigned), assigns the value and
\* emits OnSet.
ExSet(e, v) ==
    /\ Len(ex_ops[e]) < MaxOps
    /\ ex_ops' = [ex_ops EXCEPT ![e] = Append(@, [op |-> "set", pos |-> v])]
    /\ ex_has' = [ex_has EXCEPT ![e] = TRUE]
    /\ ex_pos' = [ex_pos EXCEPT ![e] = v]
    /\ ex_log' = [ex_log EXCEPT ![e] =
            Deliver(IF ex_has[e] THEN @ ELSE Deliver(@, "OnAdd", ex_pos[e]), "OnSet", v)]
    /\ UNCHANGED notExample

\* Lines 43 and 46, entity.remove::<Position>(): the engine emits OnRemove with
\* the value still in place and removes the component; nothing happens on an
\* entity that lacks it.
ExRemove(e) ==
    /\ Len(ex_ops[e]) < MaxOps
    /\ ex_ops' = [ex_ops EXCEPT ![e] = Append(@, [op |-> "remove", pos |-> "none"])]
    /\ ex_has' = [ex_has EXCEPT ![e] = FALSE]
    /\ ex_log' = [ex_log EXCEPT ![e] =
            IF ex_has[e] THEN Deliver(@, "OnRemove", ex_pos[e]) ELSE @]
    /\ UNCHANGED ex_pos
    /\ UNCHANGED notExample

\* =================================================================
\* The Id! macro on world handles, and the static ComponentId path
\* =================================================================
\* Type 1 derives Component (Position in meta_id_macro_test); the other types
\* do not (ExtermalPosition).
StaticTypes == {1}
\* The types the handles are asked about: the static type and one type without
\* ComponentId.
IdTypes == StaticTypes \cup {NumTypes}

\* world and world.get_world(), lines 68 and 76.
HandleKinds == {"world", "world_ref"}
Handles == [kind : HandleKinds, w : Worlds]

\* world.world(), line 23: the world a handle stands for.
IntoWorldDetached(h) == IF h.kind = "world_ref" THEN 1 ELSE h.w
IntoWorld(h) == h.w

\* The impl a call of deref_id on `&&ComponentIdFetcher<T>` can resolve to:
\* ExternalComponent for &ComponentIdFetcher<T> takes every 'static T, and
\* FlecsComponent for &&ComponentIdFetcher<T> every T with ComponentId.
MacroPaths(t) == IF t \in StaticTypes THEN {"flecs", "external"} ELSE {"external"}

IdInit ==
    /\ static_ids = [w \in Worlds |-> [t \in Types |-> 0]]
    /\ seen = [h \in Handles |-> [t \in Types |-> {}]]

\* T::id(world): the id the world holds for T, registering T under its name
\* on first use.
StaticId(w, t) ==
    IF static_ids[w][t] # 0 THEN static_ids[w][t] ELSE ExternalRegisterId(w, t)

StaticIdEffect(w, t) ==
    IF static_ids[w][t] # 0
    THEN UNCHANGED <<static_ids, engine_names, engine_next>>
    ELSE /\ ExternalRegisterEffect(w, t)
         /\ static_ids' = [static_ids EXCEPT ![w][t] = ExternalRegisterId(w, t)]

\* world.component_id::<T>(), line 71.
WorldComponentId(w, t) ==
    /\ t \in StaticTypes
    /\ StaticIdEffect(w, t)
    /\ UNCHANGED <<components_map, register_calls, returned, lookup_count, seen>>
    /\ UNCHANGED notIdentity

\* Id!(handle, T), lines 40-48, resolved to FlecsComponent::deref_id, lines 15-19.
IdMacroFlecs(h, t) ==
    /\ "flecs" \in MacroPaths(t)
    /\ StaticIdEffect(IntoWorld(h), t)
    /\ seen' = [seen EXCEPT ![h][t] = @ \cup {StaticId(IntoWorld(h), t)}]
    /\ UNCHANGED <<components_map, register_calls, returned, lookup_count>>
    /\ UNCHANGED notIdentity

\* Id!(handle, T), lines 40-48, resolved to ExternalComponent::deref_id, lines 21-29.
IdMacroExternal(h, t) ==
    /\ "external" \in MacroPaths(t)
    /\ LET w == IntoWorld(h)
           m == ComponentsMapOf(w)
           hit == EntryOccupied(components_map[m], t)
           id == IF hit THEN components_map[m][t] ELSE ExternalRegisterId(w, t)
       IN /\ IF hit
             THEN UNCHANGED <<components_map, engine_names, engine_next, register_calls>>
             ELSE /\ ExternalRegisterEffect(w, t)
                  /\ components_map' = [components_map EXCEPT ![m][t] = id]
                  /\ register_calls' = [register_calls EXCEPT ![w][t] = @ + 1]
          /\ seen' = [seen EXCEPT ![h][t] = @ \cup {id}]
    /\ UNCHANGED <<static_ids, returned, lookup_count>>
    /\ UNCHANGED notIdentity

\* =================================================================
\* EntityView::try_get
\* =================================================================
\* Whether the build has the binding's assertions compiled in.
Builds == {"asserts_on", "asserts_off"}

\* ecs_assert!(cond, ..): fatal when the condition is false and assertions are
\* compiled in, nothing otherwise.
EcsAssertFails(build, cond) == build = "asserts_on" /\ ~cond

\* A pointer is <<>> when null and <<v>> when it points to v; what an accessor
\* produces is None, Some of a value, or a fatal assertion or panic.
NullPtr == <<>>
PtrTo(v) == <<v>>
None == [kind |-> "None", val |-> <<>>]
Some(v) == [kind |-> "Some", val |-> <<v>>]
AssertFailed == [kind |-> "assert_failed", val |-> <<>>]

\* <*const T>::as_ref: None for a null pointer, Some of the pointee otherwise.
AsRefUnchecked(ptr) == [kind |-> "Some", val |-> ptr]
AsRef(ptr) == IF Len(ptr) = 0 THEN None ELSE Some(ptr[1])

\* A try_get that passes a tag by without asserting.
TryGetTagSilent(build, is_enum, is_tag, own, target, constant) ==
    IF ~is_enum
    THEN IF is_tag THEN None ELSE AsRef(own)
    ELSE IF target = 0
         THEN AsRef(own)
         ELSE IF EcsAssertFails(build, Len(constant) # 0)
              THEN AssertFailed
              ELSE AsRef(constant)

\* A try_get that prefers the value stored on the entity itself.
TryGetOwnFirst(build, is_enum, is_tag, own, target, constant) ==
    IF is_tag
    THEN IF EcsAssertFails(build, FALSE) THEN AssertFailed ELSE None
    ELSE IF Len(own) # 0 \/ target = 0 THEN AsRef(own) ELSE AsRef(constant)

\* try_get, lines 614-663. `own` is ecs_get_id(entity, T), `target` is
\* ecs_get_target(entity, T, 0) and `constant` is ecs_get_id(target, T); each
\* a pointer.
TryGet(build, is_enum, is_tag, own, target, constant) ==
    IF ~is_enum
    THEN IF is_tag
         THEN IF EcsAssertFails(build, FALSE) THEN AssertFailed ELSE None
         ELSE AsRef(own)
    ELSE IF target = 0
         THEN AsRef(own)
         ELSE IF EcsAssertFails(build, Len(constant) # 0)
              THEN AssertFailed
              ELSE AsRef(constant)

GetInit ==
    ex_got = [e \in ExEntities |-> [at |-> -1, result |-> None]]

\* ecs_get_id(entity, Position) in the example: the stored value, or null.
ExGetId(e) == IF ex_has[e] THEN PtrTo(ex_pos[e]) ELSE NullPtr

\* entity.try_get::<Position>(): Position is neither an enum nor a tag.
ExTryGet(e, build) ==
    /\ ex_got' = [ex_got EXCEPT ![e] =
            [at |-> Len(ex_ops[e]),
             result |-> TryGet(build, FALSE, FALSE, ExGetId(e), 0, NullPtr)]]
    /\ UNCHANGED exVars
    /\ UNCHANGED notGet

\* =================================================================
\* The query and system examples (examples/query_with.rs, system_basics.rs)
\* =================================================================
QwInit ==
    /\ qw_entities = <<>>
    /\ qw_initial = <<>>
    /\ qw_calls = <<>>
    /\ qw_runs = 0

Has(e, c) ==
    CASE c = "Position" -> Len(e.pos) > 0
      [] c = "Npc" -> e.npc
      [] c = "Velocity" -> Len(e.vel) > 0

ValueOf(e, c) ==
    CASE c = "Position" -> e.pos[1]
      [] c = "Velocity" -> e.vel[1]
      [] c = "Npc" -> "tag"

\* The table an entity is stored in: the one of its component set.
Archetype(e) == {c \in {"Position", "Npc", "Velocity"} : Has(e, c)}

\* query_with.rs line 18: world.query::<&Position>().with::<&Npc>().build().
\* `sig` are the terms of the type signature, `with` the terms added by with.
QueryNoWith == [sig |-> <<"Position">>, with |-> <<>>]
Query == [sig |-> <<"Position">>, with |-> <<"Npc">>]

\* The engine matches a table when it holds every term of the filter.
TermsOf(q) == q.sig \o q.with
TableMatches(arch, q) == \A k \in 1..Len(TermsOf(q)) : TermsOf(q)[k] \in arch

\* The rows of a table: its entities in the order they entered it, which for
\* entities created one after another is the order of creation.
RECURSIVE TableRows(_, _, _)
TableRows(ents, arch, from) ==
    IF from > Len(ents) THEN <<>>
    ELSE (IF Archetype(ents[from]) = arch THEN <<from>> ELSE <<>>)
            \o TableRows(ents, arch, from + 1)

\* each_entity on one table: one call per row, handing over the entity and the
\* values of the signature's terms.
EachEntityRows(ents, rows, q) ==
    [k \in 1..Len(rows) |->
        [entity |-> rows[k],
         tuple |-> [j \in 1..Len(q.sig) |-> ValueOf(ents[rows[k]], q.sig[j])]]]

\* each_entity: the matched tables in the order the engine returns them.
RECURSIVE EachEntity(_, _, _)
EachEntity(ents, tables, q) ==
    IF Len(tables) = 0 THEN <<>>
    ELSE EachEntityRows(ents, TableRows(ents, tables[1], 1), q)
            \o EachEntity(ents, Tail(tables), q)

MatchedTables(ents, q) ==
    {arch \in {Archetype(ents[i]) : i \in 1..Len(ents)} : TableMatches(arch, q)}

\* The orders the engine may return a set of tables in.
TableOrders(S) ==
    {o \in [1..Cardinality(S) -> S] : \A a \in S : \E k \in DOMAIN o : o[k] = a}

Velocities == {[x |-> 1, y |-> 2], [x |-> 3, y |-> 4]}
PositionPtrs == {NullPtr} \cup {PtrTo(p) : p \in Positions}
VelocityPtrs == {NullPtr} \cup {PtrTo(v) : v \in Velocities}

\* query_with.rs lines 21-32, system_basics.rs lines 22-33: an entity is
\* created with the components given to it: set(Position), add::<Npc>(),
\* set(Velocity), each or not.
QwCreate(pos, npc, vel) ==
    /\ qw_runs = 0
    /\ Len(qw_entities) < MaxBatch
    /\ qw_entities' = Append(qw_entities, [pos |-> pos, npc |-> npc, vel |-> vel])
    /\ qw_initial' = Append(qw_initial, pos)
    /\ UNCHANGED <<qw_calls, qw_runs>>
    /\ UNCHANGED notQw

\* query_with.rs lines 35-37: query.each_entity(..).
QueryEachEntity(order) ==
    /\ qw_runs = 0
    /\ order \in TableOrders(MatchedTables(qw_entities, Query))
    /\ qw_calls' = EachEntity(qw_entities, order, Query)
    /\ qw_runs' = 1
    /\ UNCHANGED <<qw_entities, qw_initial>>
    /\ UNCHANGED notQw

\* system_basics.rs lines 13-14: world.system::<(&mut Position, &Velocity)>().
SystemQueryPositionOnly == [sig |-> <<"Position">>, with |-> <<>>]
SystemQuery == [sig |-> <<"Position", "Velocity">>, with |-> <<>>]

\* system_basics.rs lines 15-19, the closure: p.x += v.x; p.y += v.y.
SystemEach(p, v) == [x |-> p.x + v.x, y |-> p.y + v.y]

\* The closure run on the rows the system was called for. A row without a
\* Velocity column hands the closure whatever lies where the column would be.
SystemApply(ents, calls) ==
    [i \in 1..Len(ents) |->
        IF \E k \in 1..Len(calls) : calls[k].entity = i
        THEN [ents[i] EXCEPT !.pos = PtrTo(SystemEach(ents[i].pos[1],
                        IF Has(ents[i], "Velocity") THEN ents[i].vel[1]
                        ELSE [x |-> 0, y |-> 0]))]
        ELSE ents[i]]

\* system_basics.rs line 36: s.run().
SystemRun(order) ==
    /\ qw_runs < MaxRuns
    /\ order \in TableOrders(MatchedTables(qw_entities, SystemQuery))
    /\ qw_calls' = EachEntity(qw_entities, order, SystemQuery)
    /\ qw_entities' = SystemApply(qw_entities, EachEntity(qw_entities, order, SystemQuery))
    /\ qw_runs' = qw_runs + 1
    /\ UNCHANGED qw_initial
    /\ UNCHANGED notQw

\* =================================================================
\* Structural changes from inside a callback
\* =================================================================
StructuralOps == [op : {"add", "remove"}, c : {"Npc", "Velocity"}]

DeferInit ==
    /\ df_comps = {"Position"}
    /\ df_queue = <<>>
    /\ df_asked = 0
    /\ df_applied = 0

ApplyOp(comps, o) == IF o.op = "add" THEN comps \cup {o.c} ELSE comps \ {o.c}

\* The engine is in deferred mode while it runs a callback.
EngineAppliesAtOnce == FALSE
EngineDefers == tr_pc = "loop"

\* The closure of the row being run adds or removes a component on the entity
\* it was called for: the engine queues the operation while it defers.
ClosureMutates(o) ==
    /\ proc = "running"
    /\ tr_pc = "loop"
    /\ tr_row < tr_count
    /\ df_asked < MaxQueue
    /\ df_asked' = df_asked + 1
    /\ IF EngineDefers
       THEN /\ df_queue' = Append(df_queue, o)
            /\ UNCHANGED df_comps
       ELSE /\ df_comps' = ApplyOp(df_comps, o)
            /\ UNCHANGED df_queue
    /\ UNCHANGED df_applied
    /\ UNCHANGED notDefer

\* The engine leaves deferred mode once the callback has returned, and applies
\* the queue in order.
RECURSIVE ApplyAll(_, _)
ApplyAll(comps, q) == IF Len(q) = 0 THEN comps ELSE ApplyAll(ApplyOp(comps, q[1]), Tail(q))

EngineFlush ==
    /\ proc = "running"
    /\ tr_pc = "idle"
    /\ Len(df_queue) > 0
    /\ df_comps' = ApplyAll(df_comps, df_queue)
    /\ df_applied' = df_applied + Len(df_queue)
    /\ df_queue' = <<>>
    /\ UNCHANGED df_asked
    /\ UNCHANGED notDefer

\* =================================================================
\* The typed accessors on one entity: try_get, get
\* =================================================================
\* A struct component, a tag and an enum component.
AccTypes == {"Position", "Npc", "Color"}
ValueTypes == {"Position", "Color"}
ConstEntities == {1, 2}

\* T::IS_ENUM and T::IS_TAG.
IsEnum(T) == T = "Color"
IsTag(T) == T = "Npc"

NoCall == [fn |-> "none", type |-> "none", build |-> "none", own |-> NullPtr,
           target |-> 0, constant |-> NullPtr, result |-> None]

AccessInit ==
    /\ ac_own = [T \in AccTypes |-> NullPtr]
    /\ ac_target = 0
    /\ ac_const = [c \in ConstEntities |-> NullPtr]
    /\ ac_last = NoCall

\* The value a set of T stores on the entity, and the value constant c holds.
OwnValue(T) == <<"own", T>>
ConstValue(c) == <<"constant", c>>

\* entity.set(T {..}) and entity.remove::<T>() on the bare id.
AcSet(T) ==
    /\ T \in ValueTypes
    /\ ac_own' = [ac_own EXCEPT ![T] = PtrTo(OwnValue(T))]
    /\ ac_last' = NoCall
    /\ UNCHANGED <<ac_target, ac_const>>
    /\ UNCHANGED notAccess

AcRemove(T) ==
    /\ T \in ValueTypes
    /\ ac_own' = [ac_own EXCEPT ![T] = NullPtr]
    /\ ac_last' = NoCall
    /\ UNCHANGED <<ac_target, ac_const>>
    /\ UNCHANGED notAccess

\* The entity gets, or loses, the pair (Color, c) with constant entity c.
AcSetTarget(c) ==
    /\ c \in ConstEntities \cup {0}
    /\ ac_target' = c
    /\ ac_last' = NoCall
    /\ UNCHANGED <<ac_own, ac_const>>
    /\ UNCHANGED notAccess

\* The enum's registration stores the constant's value on constant entity c.
AcRegisterConstant(c) ==
    /\ ac_const' = [ac_const EXCEPT ![c] = PtrTo(ConstValue(c))]
    /\ ac_last' = NoCall
    /\ UNCHANGED <<ac_own, ac_target>>
    /\ UNCHANGED notAccess

\* ecs_get_id(target, Color) for the target try_get resolved.
ConstantPtr(target) == IF target = 0 THEN NullPtr ELSE ac_const[target]

Call(fn, T, build, result) ==
    [fn |-> fn, type |-> T, build |-> build, own |-> ac_own[T], target |->
        IF IsEnum(T) THEN ac_target ELSE 0,
     constant |-> IF IsEnum(T) THEN ConstantPtr(ac_target) ELSE NullPtr,
     result |-> result]

\* entity.try_get::<T>(), lines 614-663.
AcTryGet(T, build) ==
    /\ ac_last' = Call("try_get", T, build,
            TryGet(build, IsEnum(T), IsTag(T), ac_own[T], ac_target,
                   ConstantPtr(ac_target)))
    /\ UNCHANGED <<ac_own, ac_target, ac_const>>
    /\ UNCHANGED notAccess

\* The message of the expect in get (and in every other "must" accessor of
\* a component), as the parts it is built from: one literal.
GetExpectMessage == <<"Component does not exist on this entity">>

\* Option::expect: the value of Some, a panic carrying msg for None.  A
\* failed assertion inside the try_ accessor never reaches the expect.
Expect(opt, msg) ==
    IF opt.kind = "None" THEN [kind |-> "panic", val |-> msg] ELSE opt

\* entity.get::<T>(), lines 683-686.
AcGet(T, build) ==
    /\ ac_last' = Call("get", T, build,
            Expect(TryGet(build, IsEnum(T), IsTag(T), ac_own[T], ac_target,
                          ConstantPtr(ac_target)),
                   GetExpectMessage))
    /\ UNCHANGED <<ac_own, ac_target, ac_const>>
    /\ UNCHANGED notAccess

\* A message names a type when the type's name is one of its parts.
MessageNames(msg, T) == \E i \in 1..Len(msg) : msg[i] = T

\* =================================================================
\* Name lookup: try_lookup, try_lookup_current_scope, lookup,
\* lookup_current_scope
\* =================================================================
Names == {"a", "b"}
\* The handle the lookup starts from: the null handle or a scope entity.
LookupHandles == {0, 1}
\* The ids the engine gave the named entities.
ScopedId(n) == IF n = "a" THEN 11 ELSE 12
OuterId(n) == IF n = "a" THEN 21 ELSE 22

NoLookup == [fn |-> "none", handle |-> 0, name |-> "none", build |-> "none",
             result |-> None]

LookupInit ==
    /\ lk_scoped = [n \in Names |-> 0]
    /\ lk_outer = [n \in Names |-> 0]
    /\ lk_last = NoLookup

\* An entity of name n is created inside the handle's entity, or outside it.
NameScoped(n) ==
    /\ lk_scoped[n] = 0
    /\ lk_scoped' = [lk_scoped EXCEPT ![n] = ScopedId(n)]
    /\ lk_last' = NoLookup
    /\ UNCHANGED lk_outer
    /\ UNCHANGED notLookup

NameOuter(n) ==
    /\ lk_outer[n] = 0
    /\ lk_outer' = [lk_outer EXCEPT ![n] = OuterId(n)]
    /\ lk_last' = NoLookup
    /\ UNCHANGED lk_scoped
    /\ UNCHANGED notLookup

\* The named entity is deleted.
NameDelete(n) ==
    /\ lk_scoped[n] # 0 \/ lk_outer[n] # 0
    /\ lk_scoped' = [lk_scoped EXCEPT ![n] = 0]
    /\ lk_outer' = [lk_outer EXCEPT ![n] = 0]
    /\ lk_last' = NoLookup
    /\ UNCHANGED notLookup

\* ecs_lookup_path_w_sep(world, parent, name, sep, sep, recursive): the entity
\* of that name inside parent, else, when recursive, the one in the enclosing
\* scope, else 0.  Parent 0 is the enclosing (root) scope itself.
EcsLookupPath(parent, n, recursive) ==
    IF parent = 0
    THEN lk_outer[n]
    ELSE IF lk_scoped[n] # 0
         THEN lk_scoped[n]
         ELSE IF recursive THEN lk_outer[n] ELSE 0

\* try_lookup_impl, lines 1649-1671.
TryLookupImpl(build, h, n, search_path) ==
    IF EcsAssertFails(build, h # 0)
    THEN AssertFailed
    ELSE LET id == EcsLookupPath(h, n, search_path)
         IN  IF id = 0 THEN None ELSE Some(id)

\* try_lookup, line 1691, and try_lookup_current_scope, line 1713.
TryLookup(build, h, n) == TryLookupImpl(build, h, n, TRUE)
TryLookupCurrentScope(build, h, n) == TryLookupImpl(build, h, n, FALSE)

\* The EntityView an accessor hands back unwrapped.
EntityViewOf(r) == IF r.kind = "Some" THEN [kind |-> "EntityView", val |-> r.val] ELSE r

\* lookup, lines 1740-1743, and lookup_current_scope, lines 1768-1771.
Lookup(build, h, n) ==
    EntityViewOf(Expect(TryLookup(build, h, n),
                        <<"Entity not found, when unsure, use try_lookup">>))
LookupCurrentScope(build, h, n) ==
    EntityViewOf(Expect(TryLookupCurrentScope(build, h, n),
                        <<"Entity not found, when unsure, use try_lookup_current_scope">>))

LookupCall(fn, build, h, n, result) ==
    /\ lk_last' = [fn |-> fn, handle |-> h, name |-> n, build |-> build,
                   result |-> result]
    /\ UNCHANGED <<lk_scoped, lk_outer>>
    /\ UNCHANGED notLookup

CallTryLookup(build, h, n) ==
    LookupCall("try_lookup", build, h, n, TryLookup(build, h, n))
CallTryLookupCurrentScope(build, h, n) ==
    LookupCall("try_lookup_current_scope", build, h, n, TryLookupCurrentScope(build, h, n))
CallLookup(build, h, n) ==
    LookupCall("lookup", build, h, n, Lookup(build, h, n))
CallLookupCurrentScope(build, h, n) ==
    LookupCall("lookup_current_scope", build, h, n, LookupCurrentScope(build, h, n))

\* =================================================================
\* Each-style walks: each_component, each_pair, each_child_of_id
\* =================================================================
EachInit ==
    /\ ea_children = <<>>
    /\ ea_runs = <<>>

\* The handle a walk is made from: an entity, or the wildcard or any entity.
SelfKinds == {"entity", "wildcard", "any"}
\* The relationship the entity's children hold to it.
ChildOfRel == 1

RECURSIVE Flatten(_)
Flatten(tables) == IF Len(tables) = 0 THEN <<>> ELSE tables[1] \o Flatten(Tail(tables))

\* A child is created: it joins one of the tables of children or a new one.
ChildAdd(k) ==
    /\ Len(Flatten(ea_children)) < MaxChildren
    /\ k \in 1..(Len(ea_children) + 1)
    /\ LET id == Len(Flatten(ea_children)) + 1
       IN ea_children' = IF k <= Len(ea_children)
                         THEN [ea_children EXCEPT ![k] = Append(@, id)]
                         ELSE Append(ea_children, <<id>>)
    /\ UNCHANGED ea_runs
    /\ UNCHANGED pairVars
    /\ UNCHANGED notEach

\* entity.archetype(), lines 371-375: the table's ids, none without a table.
EntityArchetype == IF ent_has_table THEN table_ids ELSE <<>>

\* each_component, lines 422-429: func for every id of the archetype.
EachComponentCalls == EntityArchetype

\* each_pair, line 466: the cursor the search starts from.
CursorStartKept == IF Len(ea_runs) = 1 THEN 1 ELSE 0
CursorStart == 0

\* each_pair, lines 443-486.
EachPairCalls(pred, obj) ==
    IF ~ent_has_table THEN <<>>
    ELSE EachPairLoop(table_ids, EachPairPattern(pred, obj), CursorStart, <<>>)

\* sys::ecs_each_id and ecs_each_next: the tables of the entities holding the
\* pair (relationship, self); with a wildcard self, those of every child.
EcsEachId(rel, self) == IF rel = ChildOfRel THEN ea_children ELSE <<>>

\* each_child_of_id, lines 541-565.
EachChildOfIdCalls(self, rel) ==
    IF self \in {"wildcard", "any"} THEN <<>> ELSE Flatten(EcsEachId(rel, self))

\* What a walk read (the table, or the children) and what it handed to func.
Run(fn, pred, obj, self, calls) ==
    [fn |-> fn, pred |-> pred, obj |-> obj, self |-> self,
     has_table |-> IF fn = "each_child_of_id" THEN FALSE ELSE ent_has_table,
     table |-> IF fn = "each_child_of_id" THEN <<>> ELSE table_ids,
     children |-> IF fn = "each_child_of_id" THEN ea_children ELSE <<>>,
     calls |-> calls]

SameWalk(a, b) ==
    /\ a.fn = b.fn /\ a.pred = b.pred /\ a.obj = b.obj /\ a.self = b.self
    /\ a.has_table = b.has_table /\ a.table = b.table /\ a.children = b.children

\* A walk reads the entity and writes nothing; it is recorded after the one
\* before it when it repeats that one on an unchanged entity.
Walk(run) ==
    /\ ea_runs' = IF Len(ea_runs) = 1 /\ SameWalk(ea_runs[1], run)
                  THEN Append(ea_runs, run)
                  ELSE <<run>>
    /\ UNCHANGED ea_children
    /\ UNCHANGED pairVars
    /\ UNCHANGED notEach

WalkEachComponent == Walk(Run("each_component", 0, 0, "entity", EachComponentCalls))
WalkEachPair(pred, obj) ==
    Walk(Run("each_pair", pred, obj, "entity", EachPairCalls(pred, obj)))
WalkEachChildOfId(self, rel) ==
    Walk(Run("each_child_of_id", rel, 0, self, EachChildOfIdCalls(self, rel)))

\* ecs_has_id(entity, id) as `has` asks it: for the bare id T, whether the
\* entity holds T itself; for the pair (T, *), whether it holds a pair of T
\* with any target.
EcsHasBare(T) == Len(ac_own[T]) # 0
EcsHasPairWildcard(T) == IsEnum(T) /\ ac_target # 0

\* has, lines 1806-1813: the bare id for a type that is not an enum, the pair
\* (T, ECS_WILDCARD) for an enum.
EntityHas(T) == IF ~IsEnum(T) THEN EcsHasBare(T) ELSE EcsHasPairWildcard(T)

\* The value the engine gives a component it adds on a get-mut.
DefaultValue(T) == <<"default", T>>

\* ecs_get_mut_id(entity, T): the pointer to the entity's T, which the engine
\* adds first when the entity does not hold it (the SAFETY remark at lines
\* 1194-1195).
EcsGetMutId(ptr, T) == IF Len(ptr) = 0 THEN PtrTo(DefaultValue(T)) ELSE ptr

\* <*mut T>::as_mut: None for a null pointer, Some of the pointee otherwise.
AsMut(ptr) == IF Len(ptr) = 0 THEN None ELSE Some(ptr[1])

\* What a try_get_mut leaves behind: its result and the pointers under T on
\* the entity and on the constant entity after the call.
MutOutcome(result, own, constant) ==
    [result |-> result, own |-> own, constant |-> constant]

\* A try_get_mut that reads as try_get does, through the pointers as they are.
TryGetMutReadOnly(build, T, own, target, constant) ==
    IF ~IsEnum(T)
    THEN IF EcsAssertFails(build, ~IsTag(T))
         THEN MutOutcome(AssertFailed, own, constant)
         ELSE MutOutcome(AsMut(own), own, constant)
    ELSE IF target = 0
         THEN MutOutcome(AsMut(own), own, constant)
         ELSE IF EcsAssertFails(build, Len(constant) # 0)
              THEN MutOutcome(AssertFailed, own, constant)
              ELSE MutOutcome(AsMut(constant), own, constant)

\* try_get_mut, lines 1056-1104. A type that is not an enum: the size
\* assertion, then as_mut of ecs_get_mut_id(entity, T); a tag has no value to
\* point to. An enum: the target of (T, *) first; as_mut of
\* ecs_get_mut_id(entity, T) without a target, of ecs_get_mut_id(target, T)
\* with one, followed by the assertion that the result is Some.
TryGetMut(build, T, own, target, constant) ==
    IF ~IsEnum(T)
    THEN IF EcsAssertFails(build, ~IsTag(T))
         THEN MutOutcome(AssertFailed, own, constant)
         ELSE IF IsTag(T)
              THEN MutOutcome(None, own, constant)
              ELSE MutOutcome(AsMut(EcsGetMutId(own, T)), EcsGetMutId(own, T), constant)
    ELSE IF target = 0
         THEN MutOutcome(AsMut(EcsGetMutId(own, T)), EcsGetMutId(own, T), constant)
         ELSE LET constant_value == AsMut(EcsGetMutId(constant, T))
              IN IF EcsAssertFails(build, constant_value.kind = "Some")
                 THEN MutOutcome(AssertFailed, own, EcsGetMutId(constant, T))
                 ELSE MutOutcome(constant_value, own, EcsGetMutId(constant, T))

\* entity.try_get_mut::<T>().
AcTryGetMut(T, build) ==
    LET out == TryGetMut(build, T, ac_own[T], IF IsEnum(T) THEN ac_target ELSE 0,
                         IF IsEnum(T) THEN ConstantPtr(ac_target) ELSE NullPtr)
    IN /\ ac_last' = Call("try_get_mut", T, build, out.result)
       /\ ac_own' = [ac_own EXCEPT ![T] = out.own]
       /\ ac_const' = IF IsEnum(T) /\ ac_target # 0
                      THEN [ac_const EXCEPT ![ac_target] = out.constant]
                      ELSE ac_const
       /\ UNCHANGED ac_target
       /\ UNCHANGED notAccess

Init == RegInit /\ PairInit /\ ObsInit /\ ExInit /\ IdInit /\ GetInit /\ QwInit /\ DeferInit /\ AccessInit /\ LookupInit /\ EachInit

RegNext ==
    \/ \E w \in Worlds : EntityNew(w)
    \/ \E w \in Worlds, t \in Types : DerefId(w, t)

ConcNext ==
    \/ \E th \in Threads, w \in Worlds, t \in Types : ThStart(th, w, t)
    \/ \E th \in Threads : ThEntry(th)
    \/ \E th \in Threads : ThRegister(th)
    \/ \E th \in Threads : ThInsert(th)
    \/ \E th \in Threads : ThReturn(th)

PairNext ==
    \/ \E e \in EntityIds : EntityAddId(e)
    \/ \E a \in EntityIds, b \in EntityIds : EntityAddPair(a, b)
    \/ \E pred \in PairArgs, obj \in 0..(HalfSize - 1) : EachPair(pred, obj)

BuilderNext ==
    \/ \E t \in TermIds : With(t)
    \/ \E ev \in EventIds : AddEvent(ev)
    \/ \E ty \in EventTypes : AddEventOfType(ty)
    \/ \E b \in BOOLEAN : YieldExisting(b)
    \/ \E c \in {"null", "user_ctx"} : SetContext(c)
    \/ \E cb \in {"null", "user_run"} : SetRunCallback(cb)
    \/ OnEach
    \/ Build

CallbackNext ==
    \/ OnEach
    \/ Build
    \/ \E sh \in EntityShapes, ev \in EventTypes : ObserveImpl(sh, ev)
    \/ \E o \in 1..Len(observers), n \in 0..MaxRows : TrampolineBegin(o, n)
    \/ \E outcome \in {"return"} \cup PanicOutcomes : TrampolineRow(outcome)
    \/ TrampolineEnd
    \/ \E o \in 1..Len(observers) : DestroyObserver(o)

ExampleNext ==
    \/ \E e \in ExEntities, v \in Positions : ExSet(e, v)
    \/ \E e \in ExEntities : ExRemove(e)

IdentityNext ==
    \/ \E w \in Worlds, t \in IdTypes : WorldComponentId(w, t)
    \/ \E h \in Handles, t \in IdTypes : IdMacroFlecs(h, t)
    \/ \E h \in Handles, t \in IdTypes : IdMacroExternal(h, t)

GetNext ==
    \/ \E e \in ExEntities, v \in Positions : ExSet(e, v)
    \/ \E e \in ExEntities : ExRemove(e)
    \/ \E e \in ExEntities, build \in Builds : ExTryGet(e, build)

QueryNext ==
    \/ \E pos \in PositionPtrs, npc \in BOOLEAN, vel \in {NullPtr, PtrTo([x |-> 1, y |-> 2])} :
            QwCreate(pos, npc, vel)
    \/ \E order \in TableOrders(MatchedTables(qw_entities, Query)) :
            QueryEachEntity(order)

SystemNext ==
    \/ \E pos \in PositionPtrs, vel \in VelocityPtrs : QwCreate(pos, FALSE, vel)
    \/ \E order \in TableOrders(MatchedTables(qw_entities, SystemQuery)) :
            SystemRun(order)

DeferNext ==
    \/ \E ev \in EventTypes : ObserveImpl("empty_entity", ev)
    \/ \E o \in 1..Len(observers), n \in 0..MaxRows : TrampolineBegin(o, n)
    \/ \E outcome \in {"return"} \cup PanicOutcomes : TrampolineRow(outcome)
    \/ TrampolineEnd
    \/ \E o \in StructuralOps : ClosureMutates(o)
    \/ EngineFlush

AccessNext ==
    \/ \E T \in AccTypes : AcSet(T)
    \/ \E T \in AccTypes : AcRemove(T)
    \/ \E c \in ConstEntities \cup {0} : AcSetTarget(c)
    \/ \E c \in ConstEntities : AcRegisterConstant(c)
    \/ \E T \in AccTypes, build \in Builds : AcTryGet(T, build)
    \/ \E T \in AccTypes, build \in Builds : AcGet(T, build)

LookupNext ==
    \/ \E n \in Names : NameScoped(n)
    \/ \E n \in Names : NameOuter(n)
    \/ \E n \in Names : NameDelete(n)
    \/ \E build \in Builds, h \in LookupHandles, n \in Names : CallTryLookup(build, h, n)
    \/ \E build \in Builds, h \in LookupHandles, n \in Names :
            CallTryLookupCurrentScope(build, h, n)
    \/ \E build \in Builds, h \in LookupHandles, n \in Names : CallLookup(build, h, n)
    \/ \E build \in Builds, h \in LookupHandles, n \in Names :
            CallLookupCurrentScope(build, h, n)

EachNext ==
    \/ \E e \in EntityIds : EntityAddId(e)
    \/ \E a \in EntityIds, b \in EntityIds : EntityAddPair(a, b)
    \/ \E k \in 1..MaxChildren : ChildAdd(k)
    \/ WalkEachComponent
    \/ \E pred \in EntityIds \cup {ECS_WILDCARD},
          obj \in {0} \cup EntityIds \cup {ECS_WILDCARD} : WalkEachPair(pred, obj)
    \/ \E self \in SelfKinds, rel \in EntityIds : WalkEachChildOfId(self, rel)

AccessMutNext ==
    \/ AccessNext
    \/ \E T \in AccTypes, build \in Builds : AcTryGetMut(T, build)

SpecRegistry == Init /\ [][RegNext]_vars
SpecConc == Init /\ [][ConcNext]_vars
SpecPair == Init /\ [][PairNext]_vars
SpecBuilder == Init /\ [][BuilderNext]_vars
SpecCallbacks == Init /\ [][CallbackNext]_vars
SpecExample == Init /\ [][ExampleNext]_vars
SpecIdentity == Init /\ [][IdentityNext]_vars
SpecGet == Init /\ [][GetNext]_vars
SpecQuery == Init /\ [][QueryNext]_vars
SpecSystem == Init /\ [][SystemNext]_vars
SpecDefer == Init /\ [][DeferNext]_vars
SpecAccess == Init /\ [][AccessNext]_vars
SpecLookup == Init /\ [][LookupNext]_vars
SpecEach == Init /\ [][EachNext]_vars
SpecAccessMut == Init /\ [][AccessMutNext]_vars

\* =================================================================
\* Claims
\* =================================================================

\* C1: any two lookups of a type T on a world W return the same id, whatever
\* lookups of other types or on the other world happen in between, and the id
\* is W's own: the one W's engine holds for T.
C1_StableId ==
    \A w \in Worlds, t \in Types :
        returned[w][t] # {} => returned[w][t] = {engine_names[w][t]}

\* C1 witness: one type looked up more than once on both worlds, with a
\* different id on each, and another type looked up on the first world too.
C1_Witness ==
    \E t \in Types, u \in Types :
        /\ u # t
        /\ lookup_count[1][t] = "again"
        /\ lookup_count[2][t] = "again"
        /\ lookup_count[1][u] # "none"
        /\ returned[1][t] # returned[2][t]

\* The closures an observer's binding context holds.
ObserverClosures(o) ==
    IF observers[o].binding_ctx = 0 THEN {}
    ELSE {ctxs[observers[o].binding_ctx].slot[sh] :
            sh \in DOMAIN ctxs[observers[o].binding_ctx].slot} \ {0}

\* C2: once an observer is destroyed, the destructor of every closure its
\* binding context held has run exactly once.
C2_DropExactlyOnce ==
    \A o \in 1..Len(observers) :
        ~observers[o].alive => \A k \in ObserverClosures(o) : closures[k].drops = 1

\* C3: whenever no trampoline is running, having returned or been unwound, the
\* table's lock count is what it was on entry (0).
C3_LockReleased ==
    (tr_pc = "idle" /\ proc # "aborted") => table_lock = 0

\* C4: with the observer created for on-add, on-remove and on-set, a set on a
\* fresh entity prints one on-add and then one on-set carrying the value set; a
\* remove after it prints one on-remove carrying that value; a second remove
\* prints nothing.
C4_EventOrder ==
    \A e \in ExEntities :
        (Len(ex_ops[e]) >= 1 /\ ex_ops[e][1].op = "set") =>
            LET v == ex_ops[e][1].pos
                afterSet == <<[event |-> "OnAdd", pos |-> "not printed"],
                              [event |-> "OnSet", pos |-> v]>>
                afterRemove == Append(afterSet, [event |-> "OnRemove", pos |-> v])
            IN /\ Len(ex_ops[e]) = 1 => ex_log[e] = afterSet
               /\ (Len(ex_ops[e]) = 2 /\ ex_ops[e][2].op = "remove") =>
                        ex_log[e] = afterRemove
               /\ (Len(ex_ops[e]) = 3 /\ ex_ops[e][2].op = "remove"
                        /\ ex_ops[e][3].op = "remove") =>
                        ex_log[e] = afterRemove

\* C4 witness: the example's run on e1: set {10, 20}, remove, remove.
C4_Witness ==
    /\ Len(ex_ops["e1"]) = 3
    /\ ex_ops["e1"][1].op = "set"
    /\ ex_ops["e1"][1].pos = [x |-> 10, y |-> 20]
    /\ ex_ops["e1"][2].op = "remove"
    /\ ex_ops["e1"][3].op = "remove"
    /\ Len(ex_log["e1"]) = 3

\* C5: after on_each the descriptor's callback is the run_each trampoline and
\* the context's `each` slot holds the boxed closure with its free function.
C5_OnEachSetsCallback ==
    on_each_calls > 0 =>
        /\ desc_callback = "run_each"
        /\ desc_binding_ctx # 0
        /\ ctxs[desc_binding_ctx].slot["each"] # 0
        /\ ctxs[desc_binding_ctx].free["each"] = "on_free_each"

\* What the engine has of a built observer: its terms, events and callbacks,
\* the closures its trampoline reads included.
ObserverView(o) ==
    [terms |-> observers[o].terms,
     events |-> observers[o].events,
     callback |-> observers[o].callback,
     run |-> observers[o].run,
     slots |-> IF observers[o].binding_ctx = 0 THEN <<>>
               ELSE ctxs[observers[o].binding_ctx].slot]

\* C6: no step changes the terms, events or callbacks of an observer that has
\* been built.
C6_BuiltIsFrozen ==
    [][\A o \in 1..Len(observers) : ObserverView(o)' = ObserverView(o)]_vars

\* C7: add_event and add_event_of_type write only slots below the capacity,
\* and no observer is built by a builder that has received more events than
\* the capacity.
C7_EventCapacity ==
    /\ event_writes \subseteq 0..(EventCap - 1)
    /\ event_count <= EventCap
    /\ \A o \in 1..Len(observers) : observers[o].event_calls <= EventCap

\* C7 witness: a builder that was given one event more than the capacity, after
\* it had built an observer with every slot filled.
C7_Witness ==
    /\ add_event_calls = EventCap + 1
    /\ proc = "panicked"
    /\ event_writes = 0..(EventCap - 1)
    /\ \E o \in 1..Len(observers) : observers[o].event_calls = EventCap

\* C8: the pattern each_pair builds from (pred, obj) with obj non-zero decodes
\* back to exactly (pred, obj), differs from the pair of the swapped arguments
\* when pred and obj differ, and carries the pair bit; a bare pattern and every
\* bare id added to the entity do not carry it, every added pair does.
C8_PairRoundTrip ==
    /\ (ep_pattern # -1 /\ ep_obj # 0) =>
            /\ ecs_is_pair(ep_pattern)
            /\ ecs_first(ep_pattern) = ep_pred
            /\ ecs_second(ep_pattern) = ep_obj
            /\ (ep_pred # ep_obj => ep_pattern # ecs_pair(ep_obj, ep_pred))
    /\ (ep_pattern # -1 /\ ep_obj = 0) =>
            /\ ep_pattern = ep_pred
            /\ ~ecs_is_pair(ep_pattern)
    /\ \A r \in added : ecs_is_pair(r.id) = r.pair

\* C8 witness: each_pair called with two different non-zero ids on an entity
\* that holds both that pair and the swapped one, and only the first matched.
C8_Witness ==
    /\ ep_pattern # -1
    /\ ep_obj # 0
    /\ ep_pred # ep_obj
    /\ ep_obj # ECS_WILDCARD
    /\ ep_pred # ECS_WILDCARD
    /\ ecs_pair(ep_obj, ep_pred) \in SeqToSet(table_ids)
    /\ ep_calls = <<ecs_pair(ep_pred, ep_obj)>>

\* C9: the registration closure runs at most once per type and world, and a
\* lookup of a type whose cache entry is filled neither registers nor changes
\* any cache entry.
C9_RegisterOnce ==
    /\ [](\A w \in Worlds, t \in Types : register_calls[w][t] <= 1)
    /\ [][\A w \in Worlds, t \in Types :
            (components_map[w][t] # 0 /\ lookup_count'[w][t] # lookup_count[w][t])
                => /\ components_map' = components_map
                   /\ register_calls' = register_calls
                   /\ engine_names' = engine_names]_vars

\* C9 witness: a type registered once and looked up again afterwards.
C9_Witness ==
    \E w \in Worlds, t \in Types :
        register_calls[w][t] = 1 /\ lookup_count[w][t] = "again"

\* C10: when threads look the same unregistered type up on the same world at
\* the same time, one registration takes effect and all of them see one id.
C10_FirstWriterWins ==
    \A w \in Worlds, t \in Types :
        /\ register_calls[w][t] <= 1
        /\ Cardinality(returned[w][t]) <= 1

\* C11: within one world, Id! on a type with ComponentId returns the id
\* world.component_id holds for it, the ids of two different types differ, and
\* a lookup through a world reference returns what a lookup through the world
\* returns.
C11_InjectiveHandleFree ==
    \A w \in Worlds, t \in Types :
        LET viaWorld == seen[[kind |-> "world", w |-> w]][t]
            viaRef == seen[[kind |-> "world_ref", w |-> w]][t]
            ofType(u) == seen[[kind |-> "world", w |-> w]][u]
                            \cup seen[[kind |-> "world_ref", w |-> w]][u]
                            \cup ({static_ids[w][u]} \ {0})
        IN /\ (viaWorld # {} /\ viaRef # {}) => viaWorld = viaRef
           /\ Cardinality(ofType(t)) <= 1
           /\ \A u \in Types \ {t} : ofType(t) \cap ofType(u) = {}

\* C11 witness: on the second world, whose ids differ from the first world's,
\* the static type looked up through the world, through a reference and with
\* world.component_id, and an external type through both handles.
C11_Witness ==
    \E t \in Types \ StaticTypes, s \in StaticTypes :
        /\ seen[[kind |-> "world", w |-> 2]][s] # {}
        /\ seen[[kind |-> "world_ref", w |-> 2]][s] # {}
        /\ static_ids[2][s] # 0
        /\ seen[[kind |-> "world", w |-> 2]][t] # {}
        /\ seen[[kind |-> "world_ref", w |-> 2]][t] # {}
        /\ seen[[kind |-> "world", w |-> 1]][t] # {}
        /\ seen[[kind |-> "world", w |-> 1]][t] # seen[[kind |-> "world", w |-> 2]][t]

\* C12: try_get::<Position> returns Some of the value last set when the last
\* call on the entity was a set and None when it was a remove; a remove on an
\* entity without Position changes neither the entity's components nor the
\* events delivered.
C12_TryGetAfterSetRemove ==
    /\ [](\A e \in ExEntities :
            ex_got[e].at >= 1 =>
                LET last == ex_ops[e][ex_got[e].at]
                IN ex_got[e].result = IF last.op = "set"
                                      THEN Some(last.pos)
                                      ELSE None)
    /\ [][\A e \in ExEntities :
            (~ex_has[e] /\ Len(ex_ops'[e]) > Len(ex_ops[e])
                    /\ ex_ops'[e][Len(ex_ops'[e])].op = "remove")
                => /\ ex_has' = ex_has
                   /\ ex_pos' = ex_pos
                   /\ ex_log' = ex_log]_vars

\* C12 witness: the example's entity read after set {10, 20} (Some of it), read
\* again after the remove that followed (None), and then removed once more.
C12_Witness ==
    /\ Len(ex_ops["e1"]) >= 3
    /\ ex_ops["e1"][1].op = "set"
    /\ ex_ops["e1"][1].pos = [x |-> 10, y |-> 20]
    /\ ex_ops["e1"][2].op = "remove"
    /\ ex_ops["e1"][3].op = "remove"
    /\ ex_got["e1"] = [at |-> 2, result |-> None]
    /\ ex_got["e2"].at = 1
    /\ ex_got["e2"].result = Some([x |-> 10, y |-> 20])

\* C13 as stated: the query over Position with Npc as a with term calls back
\* exactly once for every entity holding both and never for any other; the
\* tuple is the entity's Position alone; entities are visited in creation order.
C13_QueryWith ==
    qw_runs = 1 =>
        /\ \A i \in 1..Len(qw_entities) :
                Cardinality({k \in 1..Len(qw_calls) : qw_calls[k].entity = i})
                    = IF Has(qw_entities[i], "Position") /\ Has(qw_entities[i], "Npc")
                      THEN 1 ELSE 0
        /\ \A k \in 1..Len(qw_calls) :
                qw_calls[k].tuple = <<qw_entities[qw_calls[k].entity].pos[1]>>
        /\ \A k \in 1..Len(qw_calls), l \in 1..Len(qw_calls) :
                k < l => qw_calls[k].entity < qw_calls[l].entity

\* C13 amended: as C13, with creation order holding among the entities of one
\* table (entities with the same component set); tables come one after another
\* in the engine's order.
C13_QueryWithPerTable ==
    qw_runs = 1 =>
        /\ \A i \in 1..Len(qw_entities) :
                Cardinality({k \in 1..Len(qw_calls) : qw_calls[k].entity = i})
                    = IF Has(qw_entities[i], "Position") /\ Has(qw_entities[i], "Npc")
                      THEN 1 ELSE 0
        /\ \A k \in 1..Len(qw_calls) :
                qw_calls[k].tuple = <<qw_entities[qw_calls[k].entity].pos[1]>>
        /\ \A k \in 1..Len(qw_calls), l \in 1..Len(qw_calls) :
                (k < l /\ Archetype(qw_entities[qw_calls[k].entity])
                            = Archetype(qw_entities[qw_calls[l].entity]))
                    => qw_calls[k].entity < qw_calls[l].entity

\* C13 witness: the example's batch: two entities with Position and Npc, one
\* with Position only, and the query called back for the first two in order.
C13_Witness ==
    /\ qw_runs = 1
    /\ Len(qw_entities) = 3
    /\ \A i \in 1..3 : Has(qw_entities[i], "Position") /\ ~Has(qw_entities[i], "Velocity")
    /\ qw_entities[1].npc /\ qw_entities[2].npc /\ ~qw_entities[3].npc
    /\ Len(qw_calls) = 2
    /\ qw_calls[1].entity = 1
    /\ qw_calls[2].entity = 2

\* C14: every run of the system over (&mut Position, &Velocity) calls back
\* once for each entity holding both and adds its Velocity to its Position
\* once; the Position of an entity without Velocity stays as it was created.
C14_SystemAddsVelocity ==
    \A i \in 1..Len(qw_entities) :
        LET e == qw_entities[i]
            calls == Cardinality({k \in 1..Len(qw_calls) : qw_calls[k].entity = i})
        IN IF Has(e, "Position") /\ Has(e, "Velocity")
           THEN /\ e.pos[1].x = qw_initial[i][1].x + qw_runs * e.vel[1].x
                /\ e.pos[1].y = qw_initial[i][1].y + qw_runs * e.vel[1].y
                /\ qw_runs > 0 => calls = 1
           ELSE /\ e.pos = qw_initial[i]
                /\ calls = 0

\* C14 witness: the example's batch after one run: e1 {10, 20} with velocity
\* {1, 2} at {11, 22}, e2 {10, 20} with velocity {3, 4} at {13, 24}, e3
\* without Velocity still at {10, 20}.
C14_Witness ==
    /\ qw_runs = 1
    /\ Len(qw_entities) = 3
    /\ qw_entities[1].pos = PtrTo([x |-> 11, y |-> 22])
    /\ qw_entities[2].pos = PtrTo([x |-> 13, y |-> 24])
    /\ qw_entities[3].pos = PtrTo([x |-> 10, y |-> 20])
    /\ ~Has(qw_entities[3], "Velocity")

C17_EnumFallback ==
    (ac_last.fn = "try_get" /\ ac_last.type = "Color") =>
        /\ ac_last.target = 0 =>
                ac_last.result = IF Len(ac_last.own) = 0 THEN None
                                 ELSE Some(ac_last.own[1])
        /\ (ac_last.target # 0 /\ Len(ac_last.constant) # 0) =>
                ac_last.result = Some(ConstValue(ac_last.target))
        /\ ac_last.target # 0 => ac_last.result # Some(OwnValue("Color"))

\* C17 witness: the entity holds a value under the bare id and the pair with
\* constant 2 as well, and try_get gave the constant's value.
C17_Witness ==
    /\ ac_last.fn = "try_get"
    /\ ac_last.type = "Color"
    /\ ac_last.target = 2
    /\ Len(ac_last.own) # 0
    /\ ac_last.result = Some(ConstValue(2))

\* C18 as stated: try_get gives None, with no panic or abort, whenever the
\* component is absent from the entity or is a tag (a zero-sized type).
C18_TryGetNoneNeverFails ==
    (/\ ac_last.fn = "try_get"
     /\ \/ ac_last.type = "Npc"
        \/ ac_last.target = 0 /\ Len(ac_last.own) = 0) =>
        ac_last.result = None

\* C18 amended: try_get gives None, in every build, when a sized component is
\* absent from the entity; for a tag (a zero-sized type) it gives None only in
\* a build without assertions, and fails its assertion in a build with them.
C18_TryGetNoneOrAssert ==
    ac_last.fn = "try_get" =>
        /\ (ac_last.type # "Npc" /\ ac_last.target = 0 /\ Len(ac_last.own) = 0) =>
                ac_last.result = None
        /\ (ac_last.type = "Npc" /\ ac_last.build = "asserts_off") =>
                ac_last.result = None
        /\ (ac_last.type = "Npc" /\ ac_last.build = "asserts_on") =>
                ac_last.result = AssertFailed

\* C18 witness: try_get of the tag in a build with assertions has failed its
\* assertion.
C18_Witness ==
    /\ ac_last.fn = "try_get"
    /\ ac_last.type = "Npc"
    /\ ac_last.build = "asserts_on"
    /\ ac_last.result = AssertFailed

\* C19: get panics exactly when try_get on the same entity would give None,
\* gives the same reference otherwise, and the panic's message names the
\* missing component type.
C19_MustPanicsNamingType ==
    ac_last.fn = "get" =>
        LET t == TryGet(ac_last.build, IsEnum(ac_last.type), IsTag(ac_last.type),
                        ac_last.own, ac_last.target, ac_last.constant)
        IN  /\ (ac_last.result.kind = "panic") <=> (t = None)
            /\ t.kind = "Some" => ac_last.result = t
            /\ ac_last.result.kind = "panic" =>
                    MessageNames(ac_last.result.val, ac_last.type)

\* C20: lookup and lookup_current_scope, called on a handle that is not null,
\* give an entity handle of id 0 when no entity matches the name, and the
\* handle of the matching entity otherwise.
C20_LookupGivesZeroHandle ==
    (lk_last.fn \in {"lookup", "lookup_current_scope"} /\ lk_last.handle # 0) =>
        lk_last.result =
            [kind |-> "EntityView",
             val |-> <<EcsLookupPath(lk_last.handle, lk_last.name,
                                     lk_last.fn = "lookup")>>]

C22_OneBindingCtx ==
    /\ [](/\ (desc_binding_ctx # 0) <=> (desc_binding_ctx_free # "null")
          /\ Cardinality({c \in 1..Len(ctxs) :
                            DOMAIN ctxs[c].slot = ObserverCtxSlots}) <= 1
          /\ \A o \in 1..Len(observers), p \in 1..Len(observers) :
                (o # p /\ observers[o].origin = "entity") =>
                    /\ observers[o].binding_ctx # 0
                    /\ observers[o].binding_ctx # observers[p].binding_ctx
                    /\ observers[o].binding_ctx # desc_binding_ctx)
    /\ [][desc_binding_ctx # 0 => desc_binding_ctx' = desc_binding_ctx]_vars
    /\ [][(Len(observers') > Len(observers)
            /\ observers'[Len(observers')].origin = "entity") =>
                /\ Len(ctxs') = Len(ctxs) + 1
                /\ observers'[Len(observers')].binding_ctx = Len(ctxs')]_vars

\* C22 witness: on_each was called twice on the builder, which holds the one
\* context allocated by the first call.
C22_Witness ==
    /\ on_each_calls = 2
    /\ Len(ctxs) = 1
    /\ desc_binding_ctx = 1

\* C23: a trampoline handed n rows locks the table and starts at row 0; every
\* invocation of the closure is for the next row, below n, and happens while
\* the table is locked; the trampoline returns only after row n - 1, unlocking
\* the table, so that with n = 0 it locks and unlocks without an invocation.
C23_RowsBetweenLockAndUnlock ==
    /\ [](tr_pc = "loop" => (tr_row <= tr_count /\ table_lock >= 1))
    /\ [][(tr_pc = "idle" /\ tr_pc' = "loop") =>
            /\ tr_row' = 0
            /\ table_lock' = table_lock + 1]_vars
    /\ [][(tr_pc = "loop" /\ tr_row' # tr_row) =>
            /\ tr_row < tr_count
            /\ tr_row' = tr_row + 1
            /\ table_lock' = table_lock
            /\ tr_pc' = "loop"]_vars
    /\ [][(tr_pc = "loop" /\ tr_pc' = "idle" /\ tr_exit' = "returned") =>
            /\ tr_row = tr_count
            /\ table_lock' = table_lock - 1]_vars

\* C23 witness: a trampoline handed two rows has returned after both.
C23_Witness ==
    /\ tr_pc = "idle"
    /\ tr_exit = "returned"
    /\ tr_count = 2
    /\ tr_row = 2

\* C24: the context of every entity observer has exactly one filled slot, the
\* free function stored with it is the one of that slot's shape, the other
\* three slots and free functions are empty, and the observer's callback is
\* the trampoline that reads that slot; no trampoline has unwrapped an empty
\* slot.
C24_SlotMatchesTrampoline ==
    LET wired == {<<"empty", "on_free_empty", "run_empty">>,
                  <<"empty_entity", "on_free_empty_entity", "run_empty_entity">>,
                  <<"payload", "on_free_payload", "run_payload">>,
                  <<"payload_entity", "on_free_payload_entity", "run_payload_entity">>}
    IN /\ \A o \in 1..Len(observers) :
            observers[o].origin = "entity" =>
                LET c == ctxs[observers[o].binding_ctx]
                IN \E w \in wired :
                        /\ c.slot[w[1]] # 0
                        /\ c.free[w[1]] = w[2]
                        /\ observers[o].callback = w[3]
                        /\ \A sh \in EntityShapes \ {w[1]} :
                                c.slot[sh] = 0 /\ c.free[sh] = "none"
       /\ tr_exit # "unwrap_none"

\* C24 witness: an observer registered through observe_payload_entity was
\* delivered an event and its trampoline returned.
C24_Witness ==
    /\ tr_obs # 0
    /\ tr_exit = "returned"
    /\ observers[tr_obs].callback = "run_payload_entity"
    /\ ctxs[observers[tr_obs].binding_ctx].slot["payload_entity"] # 0

\* C25: while the builder has received no more events than the capacity, its
\* event_count is the number of add_event and add_event_of_type calls and the
\* first event_count slots of desc.events hold the ids given, in call order;
\* no step changes a slot below event_count.
C25_EventsInCallOrder ==
    /\ [](add_event_calls <= EventCap =>
            /\ event_count = add_event_calls
            /\ Len(event_args) = add_event_calls
            /\ \A i \in 0..(event_count - 1) : desc_events[i] = event_args[i + 1]
            /\ \A i \in event_count..(EventCap - 1) : desc_events[i] = "none")
    /\ [][\A i \in 0..(event_count - 1) : desc_events'[i] = desc_events[i]]_vars

\* C25 witness: add_event_of_type(Resize), then add_event(OnAdd): slot 0 holds
\* Resize and slot 1 OnAdd.
C25_Witness ==
    /\ event_count = 2
    /\ event_args = <<"Resize", "OnAdd">>
    /\ desc_events[0] = "Resize"
    /\ desc_events[1] = "OnAdd"

\* C26: each_pair on an entity with a table matches against the bare id pred
\* when obj is 0 and against the pair (pred, obj) otherwise, and hands func the
\* ids of the archetype that match, each once, in archetype order, and no
\* other id; on an entity without a table it hands func nothing.
C26_EachPairMatches ==
    ep_pred # 0 =>
        IF ent_has_table
        THEN LET matches(id) == IdMatch(id, ep_pattern)
             IN /\ ep_obj = 0 => ep_pattern = ep_pred
                /\ ep_obj # 0 => ep_pattern = ECS_PAIR + ep_pred * HalfSize + ep_obj
                /\ ep_calls = SelectSeq(table_ids, matches)
                /\ \A i \in 1..Len(ep_calls), j \in 1..Len(ep_calls) :
                        i < j => ep_calls[i] < ep_calls[j]
        ELSE ep_calls = <<>>

\* C26 witness: each_pair with a wildcard target on an entity holding two pairs
\* of the relationship handed func both, in archetype order.
C26_Witness ==
    /\ ent_has_table
    /\ ep_pred \in EntityIds
    /\ ep_obj = ECS_WILDCARD
    /\ Len(ep_calls) = 2
    /\ ep_calls = table_ids

\* C27: every term written through an ObserverBuilder (the terms populated
\* from T by `new` and every term added afterwards) is stored in the filter
\* part of the descriptor the builder itself owns: the builder's desc.filter
\* holds exactly the terms the filter builder has written.
C27_TermsInOwnDesc == desc_filter = fb_terms

\* C28: when the binding context of the observer builder is dropped (the first
\* observer built from it is destroyed), every closure that on_each boxed and
\* stored has been handed to its free function exactly once; a second on_each
\* leaves no closure of an earlier on_each unreleased.
C28_EveryEachClosureReleased ==
    [][\A o \in 1..Len(observers) :
            ( /\ observers[o].origin = "builder"
              /\ observers[o].binding_ctx # 0
              /\ observers[o].alive
              /\ ~observers'[o].alive
              /\ \A p \in 1..Len(observers) :
                    observers[p].binding_ctx = observers[o].binding_ctx => observers[p].alive )
            => \A k \in 1..Len(closures) :
                    closures[k].shape = "each" => closures'[k].frees = 1]_vars

\* C29: in every reachable state and for every component type T, enum or not,
\* if try_get::<T>() on the entity returns Some then has::<T>() on it is true.
C29_TryGetSomeImpliesHas ==
    \A T \in AccTypes, build \in Builds :
        TryGet(build, IsEnum(T), IsTag(T), ac_own[T], ac_target,
               ConstantPtr(ac_target)).kind = "Some" => EntityHas(T)

====
